---- MODULE Spec2Model ----
(***************************************************************************)
(* Book Finder (src/src/App.js): the debounce / page-reset / fetch /       *)
(* abort / paginate pipeline of the App component.                         *)
(*                                                                         *)
(* A query is a sequence of one-character strings.  One action is one task *)
(* of the UI event loop: an input event, a click, a timer callback or the  *)
(* continuation of an await, each together with the React re-render and    *)
(* the effects that the state updates of that task trigger.                *)
(***************************************************************************)
EXTENDS Integers, Sequences, FiniteSets, TLC

VARIABLES
    mounted,     \* the component is mounted
    query,       \* useState('') of App, the raw input            (App.js:14)
    v,           \* useState(value) of useDebounced = debouncedQuery (App.js:5,15)
    timers,      \* pending setTimeout callbacks: [id, value, remaining]
    timerId,     \* the id held by the cleanup closure of useDebounced's effect
    idle,        \* milliseconds since the raw input last changed (capped at delay)
    page,        \* useState(1)                                    (App.js:16)
    results,     \* useState([])                                   (App.js:17)
    numFound,    \* useState(0)                                    (App.js:18)
    loading,     \* useState(false)                                (App.js:19)
    error,       \* useState(null)                                 (App.js:20)
    reqs,        \* every fetch() call made, in issue order, with its progress
    ctrl,        \* the request whose AbortController the effect cleanup holds, 0 if none
    lastDone,    \* the request whose fetchBooks() call returned most recently, 0 if none
    burst,       \* raw input changes, each less than delay after the one before, in
                 \* the debounce window in progress or, with no timer pending, in the
                 \* window whose end changed debouncedQuery (capped at MaxBurst)
    cards        \* the cover of each rendered card, in the order of results

vars == <<mounted, query, v, timers, timerId, idle, page, results, numFound,
          loading, error, reqs, ctrl, lastDone, burst, cards>>

\* ---------------------------------------------------------------- bounds
MaxRequests == 3          \* a commit issues requests only while fewer are recorded
TickMs == 450             \* granularity of the clock, in milliseconds
MaxBurst == 2             \* raw input changes counted in one debounce window
MaxLaxRequests == 3       \* requests recorded over the transport that ignores abort
MaxDocs == 2              \* records in a result list whose cards are derived

\* ------------------------------------------------------ program constants
delay == 450
perPage == 20

Null == "<null>"
NotOkMessage == "Network response was not ok"
TransportMessage == "Failed to fetch"
ParseMessage == "Unexpected token < in JSON"

\* The raw inputs the user may produce.
Queries == { <<>>, <<"D">>, <<"D", " ">> }

\* The catalogue records a response may carry.
Doc1 == [key |-> "/works/OL1W", title |-> "Dune", cover_i |-> 11]
Doc2 == [key |-> "/works/OL2W", title |-> "Dune Messiah", isbn |-> <<"0441172695">>]

\* The JSON bodies the search endpoint may answer with; a field may be missing.
Bodies ==
    { [docs |-> <<Doc1, Doc2>>, numFound |-> 45],
      [docs |-> <<>>, numFound |-> 0],
      [docs |-> <<Doc1>>],
      [numFound |-> 20] }

\* ------------------------------------------------------------ pure helpers
Max(a, b) == IF a >= b THEN a ELSE b
Min(a, b) == IF a <= b THEN a ELSE b

\* encodeURIComponent on the alphabet of Queries: a space is escaped.
RECURSIVE EncodeURIComponent(_)
EncodeURIComponent(s) ==
    IF s = <<>> THEN <<>>
    ELSE (IF Head(s) = " " THEN <<"%", "2", "0">> ELSE <<Head(s)>>)
         \o EncodeURIComponent(Tail(s))

\* Math.ceil(numFound / perPage)
totalPages(n) == (n + perPage - 1) \div perPage

\* data.docs || []   and   data.numFound || 0
DocsOf(data) == IF "docs" \in DOMAIN data THEN data.docs ELSE <<>>
NumFoundOf(data) == IF "numFound" \in DOMAIN data THEN data.numFound ELSE 0

Pending(r) == r.st \in {"fetch", "json"}

\* ------------------------------------------------------- the result cards
CoverIdBase == "https://covers.openlibrary.org/b/id/"
CoverIsbnBase == "https://covers.openlibrary.org/b/isbn/"
CoverSuffix == "-M.jpg"

\* A cover lookup that prefers the ISBN (faulty variant).
coverUrlIsbnFirst(doc) ==
    IF "isbn" \in DOMAIN doc /\ Len(doc.isbn) # 0
       THEN CoverIsbnBase \o doc.isbn[1] \o CoverSuffix
    ELSE IF "cover_i" \in DOMAIN doc /\ doc.cover_i # 0
       THEN CoverIdBase \o ToString(doc.cover_i) \o CoverSuffix
    ELSE Null

\* coverUrl(doc); a missing field and 0 are falsy
coverUrl(doc) ==
    IF "cover_i" \in DOMAIN doc /\ doc.cover_i # 0
       THEN CoverIdBase \o ToString(doc.cover_i) \o CoverSuffix
    ELSE IF "isbn" \in DOMAIN doc /\ Len(doc.isbn) # 0
       THEN CoverIsbnBase \o doc.isbn[1] \o CoverSuffix
    ELSE Null

\* results.map((doc) => ...): the cover each card shows
Render(rs) == [i \in 1..Len(rs) |-> coverUrl(rs[i])]

\* ------------------------------------------------- the debouncer's effect
\* A cleanup that leaves the timer armed (faulty variant).
ClearTimeoutNoop(ts, id) == ts

\* clearTimeout(id)
ClearTimeout(ts, id) == { t \in ts : t.id # id }

FreshId(ts) == CHOOSE i \in 1..(Cardinality(ts) + 1) : \A t \in ts : t.id # i

\* A timer armed without the delay (faulty variant).
SetTimeoutNow(ts, id, value) == ts \cup { [id |-> id, value |-> value, remaining |-> 0] }

\* setTimeout(() => setV(value), delay)
SetTimeout(ts, id, value) == ts \cup { [id |-> id, value |-> value, remaining |-> delay] }

\* ------------------------------------------------------- the fetch effect
\* The part of the component state the fetch effect reads and writes.
View == [page |-> page, results |-> results, numFound |-> numFound,
         loading |-> loading, error |-> error, reqs |-> reqs, ctrl |-> ctrl]

\* A cleanup that does not abort (faulty variant).
CleanupNoAbort(s) == [s EXCEPT !.ctrl = 0]

\* return () => controller.abort()
Cleanup(s) ==
    IF s.ctrl = 0 THEN s
    ELSE [s EXCEPT !.reqs[s.ctrl].aborted = TRUE, !.ctrl = 0]

\* An empty branch without setError(null) (faulty variant).
EmptyBranchKeepsError(s) == [s EXCEPT !.results = <<>>, !.numFound = 0]

\* if (!debouncedQuery) { setResults([]); setNumFound(0); setError(null); return; }
EmptyBranch(s) == [s EXCEPT !.results = <<>>, !.numFound = 0, !.error = Null]

\* A request whose offset is one page too far (faulty variant).
FetchBooksNextOffset(s, dq) ==
    [s EXCEPT !.loading = TRUE,
              !.error = Null,
              !.reqs = Append(@, [title   |-> EncodeURIComponent(dq),
                                  limit   |-> perPage,
                                  offset  |-> s.page * perPage,
                                  aborted |-> FALSE,
                                  st      |-> "fetch"]),
              !.ctrl = Len(s.reqs) + 1]

\* fetchBooks() up to its first await, and the controller made for it
FetchBooks(s, dq) ==
    [s EXCEPT !.loading = TRUE,
              !.error = Null,
              !.reqs = Append(@, [title   |-> EncodeURIComponent(dq),
                                  limit   |-> perPage,
                                  offset  |-> (s.page - 1) * perPage,
                                  aborted |-> FALSE,
                                  st      |-> "fetch"]),
              !.ctrl = Len(s.reqs) + 1]

\* An effect run that skips the cleanup of the previous run (faulty variant).
FetchEffectNoCleanup(s, dq) ==
    IF dq = <<>> THEN EmptyBranch(s) ELSE FetchBooks(s, dq)

\* One run of the effect with dependencies [debouncedQuery, page]: the cleanup
\* of the previous run, then the body.
FetchEffect(s, dq) ==
    LET c == Cleanup(s)
    IN  IF dq = <<>> THEN EmptyBranch(c) ELSE FetchBooks(c, dq)

\* The commit in which debouncedQuery has changed to dq.  Both effects run
\* against the page of that render: the page-reset effect queues setPage(1),
\* the fetch effect runs with the page it closed over; if the page was not 1
\* the queued update re-renders and the fetch effect runs again.
CommitQuery(s, dq) ==
    LET s1 == FetchEffect(s, dq)
    IN  IF s.page = 1 THEN s1 ELSE FetchEffect([s1 EXCEPT !.page = 1], dq)

\* The commit after setPage(p): the fetch effect re-runs when page changed.
CommitPage(s, p) ==
    IF p = s.page THEN s ELSE FetchEffect([s EXCEPT !.page = p], v)

Apply(s) ==
    /\ Len(s.reqs) > Len(reqs) => Len(reqs) < MaxRequests
    /\ page' = s.page
    /\ results' = s.results
    /\ numFound' = s.numFound
    /\ loading' = s.loading
    /\ error' = s.error
    /\ reqs' = s.reqs
    /\ ctrl' = s.ctrl
    /\ cards' = Render(s.results)

viewVars == <<page, results, numFound, loading, error, reqs, ctrl>>

\* ------------------------------------------------------------------- Init
\* The state after mount: every effect has run once.  useDebounced armed a
\* timer for the initial value, the fetch effect took its empty branch.
Init ==
    /\ mounted = TRUE
    /\ query = <<>>
    /\ v = <<>>
    /\ timers = { [id |-> 1, value |-> <<>>, remaining |-> delay] }
    /\ timerId = 1
    /\ idle = 0
    /\ page = 1
    /\ results = <<>>
    /\ numFound = 0
    /\ loading = FALSE
    /\ error = Null
    /\ reqs = <<>>
    /\ ctrl = 0
    /\ lastDone = 0
    /\ burst = 0
    /\ cards = Render(<<>>)

\* ---------------------------------------------------------------- actions
\* setQuery(x) and the re-run of useDebounced's effect: the cleanup clears
\* the timer of the previous run, the body arms a new one.
SetQuery(x) ==
    /\ mounted
    /\ x # query
    /\ query' = x
    /\ LET cleared == ClearTimeout(timers, timerId)
           id == FreshId(cleared)
       IN  /\ timers' = SetTimeout(cleared, id, x)
           /\ timerId' = id
    /\ idle' = 0
    /\ burst' = IF idle < delay THEN Min(MaxBurst, burst + 1) ELSE 1
    /\ UNCHANGED <<mounted, v, lastDone, cards>>
    /\ UNCHANGED viewVars

\* onChange of the input
Type == \E x \in Queries \ {<<>>} : SetQuery(x)

\* onChange with an emptied box, or onClick of the Clear button
ClearClick == SetQuery(<<>>)

\* Time passes; a timer that is due fires before more time passes.
Tick ==
    /\ mounted
    /\ \A t \in timers : t.remaining > 0
    /\ timers # {} \/ idle < delay
    /\ timers' = { [t EXCEPT !.remaining = Max(0, @ - TickMs)] : t \in timers }
    /\ idle' = Min(delay, idle + TickMs)
    /\ UNCHANGED <<mounted, query, v, timerId, lastDone, burst, cards>>
    /\ UNCHANGED viewVars

\* The timer callback setV(value), with the commit it causes.
TimerFires ==
    /\ mounted
    /\ \E t \in timers :
        /\ t.remaining = 0
        /\ timers' = timers \ {t}
        /\ v' = t.value
        /\ IF t.value = v
              THEN UNCHANGED <<viewVars, cards>> /\ burst' = 0
              ELSE Apply(CommitQuery(View, t.value)) /\ UNCHANGED burst
    /\ UNCHANGED <<mounted, query, timerId, idle, lastDone>>

\* Prev button: disabled={page === 1}
PrevDisabled(p) == p = 1

\* onClick of Prev: setPage((p) => Math.max(1, p - 1))
PrevTarget(p) == Max(1, p - 1)

PrevClick ==
    /\ mounted
    /\ ~PrevDisabled(page)
    /\ Apply(CommitPage(View, PrevTarget(page)))
    /\ UNCHANGED <<mounted, query, v, timers, timerId, idle, lastDone, burst>>

\* A Next button that is only disabled on the last page (faulty variant).
NextDisabledOnLastOnly(p, n) == p = totalPages(n)

\* Next button: disabled={page === totalPages || totalPages === 0}
NextDisabled(p, n) == p = totalPages(n) \/ totalPages(n) = 0

\* onClick of Next: setPage((p) => Math.min(totalPages || 1, p + 1))
NextTarget(p, n) == Min(IF totalPages(n) = 0 THEN 1 ELSE totalPages(n), p + 1)

\* {!loading && results.length === 0 && debouncedQuery && !error && (...)}
NoResultsShown == ~loading /\ results = <<>> /\ v # <<>> /\ error = Null

\* Page {page} of {Math.max(1, totalPages)}
DisplayedPages(n) == Max(1, totalPages(n))

NextClick ==
    /\ mounted
    /\ ~NextDisabled(page, numFound)
    /\ Apply(CommitPage(View, NextTarget(page, numFound)))
    /\ UNCHANGED <<mounted, query, v, timers, timerId, idle, lastDone, burst>>

\* The continuations of fetchBooks().  `lax` is TRUE for a transport that
\* ignores the abort signal; the fetch standard rejects an aborted request
\* with an AbortError and delivers nothing else.
Deliverable(i, lax) == lax \/ ~reqs[i].aborted

\* A completion that clears loading only after a success (faulty variant).
FinishWithoutFinally(i, st, res, nf, err) ==
    /\ reqs' = [reqs EXCEPT ![i].st = st]
    /\ lastDone' = i
    /\ IF mounted
          THEN /\ results' = res
               /\ numFound' = nf
               /\ error' = err
               /\ loading' = IF st = "success" THEN FALSE ELSE loading
               /\ cards' = Render(res)
          ELSE UNCHANGED <<results, numFound, error, loading, cards>>
    /\ UNCHANGED <<mounted, query, v, timers, timerId, idle, page, ctrl, burst>>

\* State updates of an unmounted component are dropped.
Finish(i, st, res, nf, err) ==
    /\ reqs' = [reqs EXCEPT ![i].st = st]
    /\ lastDone' = i
    /\ IF mounted
          THEN /\ results' = res
               /\ numFound' = nf
               /\ error' = err
               /\ loading' = FALSE          \* finally { setLoading(false) }
               /\ cards' = Render(res)
          ELSE UNCHANGED <<results, numFound, error, loading, cards>>
    /\ UNCHANGED <<mounted, query, v, timers, timerId, idle, page, ctrl, burst>>

\* await fetch(...) resolves with res.ok
FetchResolvesOk(i, lax) ==
    /\ reqs[i].st = "fetch"
    /\ Deliverable(i, lax)
    /\ reqs' = [reqs EXCEPT ![i].st = "json"]
    /\ UNCHANGED <<mounted, query, v, timers, timerId, idle, page, results,
                   numFound, loading, error, ctrl, lastDone, burst, cards>>

\* await fetch(...) resolves with !res.ok: throw new Error(...), caught
FetchResolvesNotOk(i, lax) ==
    /\ reqs[i].st = "fetch"
    /\ Deliverable(i, lax)
    /\ Finish(i, "failed", results, numFound, NotOkMessage)

\* A failure path that also drops the results held (faulty variant).
FetchRejectsClearing(i, lax) ==
    /\ reqs[i].st = "fetch"
    /\ Deliverable(i, lax)
    /\ Finish(i, "failed", <<>>, 0, TransportMessage)

\* await fetch(...) rejects with a transport error
FetchRejects(i, lax) ==
    /\ reqs[i].st = "fetch"
    /\ Deliverable(i, lax)
    /\ Finish(i, "failed", results, numFound, TransportMessage)

\* A handler that treats a body without docs as a failure (faulty variant).
JsonAppliesStrict(i, lax, data) ==
    /\ reqs[i].st = "json"
    /\ Deliverable(i, lax)
    /\ IF "docs" \in DOMAIN data
          THEN Finish(i, "success", DocsOf(data), NumFoundOf(data), error)
          ELSE Finish(i, "failed", results, numFound, ParseMessage)

\* await res.json() resolves with data:
\* setResults(data.docs || []); setNumFound(data.numFound || 0)
JsonApplies(i, lax, data) ==
    /\ reqs[i].st = "json"
    /\ Deliverable(i, lax)
    /\ Finish(i, "success", DocsOf(data), NumFoundOf(data), error)

JsonResolves(i, lax) == \E data \in Bodies : JsonApplies(i, lax, data)

\* await res.json() rejects: the body is no JSON
JsonRejects(i, lax) ==
    /\ reqs[i].st = "json"
    /\ Deliverable(i, lax)
    /\ Finish(i, "failed", results, numFound, ParseMessage)

\* either await rejects with an AbortError: catch returns, finally runs
AbortRejects(i) ==
    /\ Pending(reqs[i])
    /\ reqs[i].aborted
    /\ Finish(i, "aborted", results, numFound, error)

\* An unmount whose debounce cleanup is missing (faulty variant).
UnmountKeepsTimer ==
    /\ mounted
    /\ mounted' = FALSE
    /\ reqs' = Cleanup(View).reqs
    /\ ctrl' = 0
    /\ UNCHANGED <<query, v, timers, timerId, idle, page, results, numFound,
                   loading, error, lastDone, burst, cards>>

\* Unmount: the cleanups of both effects run.
Unmount ==
    /\ mounted
    /\ mounted' = FALSE
    /\ timers' = ClearTimeout(timers, timerId)
    /\ reqs' = Cleanup(View).reqs
    /\ ctrl' = 0
    /\ UNCHANGED <<query, v, timerId, idle, page, results, numFound, loading,
                   error, lastDone, burst, cards>>

Settles(lax) ==
    \E i \in 1..Len(reqs) :
        \/ FetchResolvesOk(i, lax)
        \/ FetchResolvesNotOk(i, lax)
        \/ FetchRejects(i, lax)
        \/ JsonResolves(i, lax)
        \/ JsonRejects(i, lax)
        \/ AbortRejects(i)

Next ==
    \/ Type
    \/ ClearClick
    \/ Tick
    \/ TimerFires
    \/ PrevClick
    \/ NextClick
    \/ Settles(FALSE)
    \/ Unmount

\* The program over a transport that honours the abort signal (the fetch standard).
Spec == Init /\ [][Next]_vars

LaxBound == Len(reqs') <= MaxLaxRequests

NextLax ==
    \/ Type
    \/ ClearClick
    \/ Tick
    \/ TimerFires /\ LaxBound
    \/ PrevClick /\ LaxBound
    \/ NextClick /\ LaxBound
    \/ Settles(TRUE)
    \/ Unmount

\* The program over a transport that may ignore the abort signal.
SpecLax == Init /\ [][NextLax]_vars

\* ------------------------------------------- the cards of any result list
\* The records a response may carry, as far as coverUrl reads them: cover_i is
\* absent or a positive cover id, isbn is absent, empty or a list of ISBNs.
CoverIds == {11, 240727}
IsbnLists == { <<>>, <<"0441172695">>, <<"9780441172696", "0441172695">> }
Docs ==
    {[key |-> "/works/OL1W"]}
    \cup {[key |-> "/works/OL1W", cover_i |-> c] : c \in CoverIds}
    \cup {[key |-> "/works/OL1W", isbn |-> l] : l \in IsbnLists}
    \cup {[key |-> "/works/OL1W", cover_i |-> c, isbn |-> l] : c \in CoverIds, l \in IsbnLists}
DocLists == UNION {[1..n -> Docs] : n \in 0..MaxDocs}

\* setResults(data.docs) has been committed and the list is about to be rendered
InitCover ==
    /\ mounted = TRUE
    /\ query = <<"D">>
    /\ v = <<"D">>
    /\ timers = {}
    /\ timerId = 1
    /\ idle = 0
    /\ page = 1
    /\ results \in DocLists
    /\ numFound = Len(results)
    /\ loading = FALSE
    /\ error = Null
    /\ reqs = <<[title |-> EncodeURIComponent(<<"D">>), limit |-> perPage, offset |-> 0,
                 aborted |-> FALSE, st |-> "success"]>>
    /\ ctrl = 1
    /\ lastDone = 1
    /\ burst = 0
    /\ cards = Render(<<>>)

\* the render of the result list
RenderCards ==
    /\ cards # Render(results)
    /\ cards' = Render(results)
    /\ UNCHANGED <<mounted, query, v, timers, timerId, idle, page, results, numFound,
                   loading, error, reqs, ctrl, lastDone, burst>>

NextCover == RenderCards

SpecCover == InitCover /\ [][NextCover]_vars

\* ------------------------------------------------------------------ claims
Settling(i) == Pending(reqs[i]) /\ ~Pending(reqs'[i])

\* C1: a request that settles after a later request has been issued changes
\* none of results, numFound and error, whichever of the two settles first.
C1_SupersededNeverApplied ==
    [][\A i \in 1..Len(reqs) :
         (i < Len(reqs) /\ Settling(i)) => UNCHANGED <<results, numFound, error>>]_vars

\* Request 2 was issued while request 1 was pending, request 2 succeeded first,
\* request 1 settled afterwards, and the results of request 2 are still held.
C1_Witness ==
    /\ mounted
    /\ Len(reqs) = 2
    /\ reqs[2].st = "success"
    /\ reqs[1].st = "aborted"
    /\ lastDone = 1
    /\ results = <<Doc1, Doc2>>
    /\ numFound = 45

\* C2: whenever debouncedQuery changes to a new non-empty value, the first
\* request issued after the change has offset 0 (page 1).
C2_FirstFetchIsPageOne ==
    [][(v' # v /\ v' # <<>>) =>
          (Len(reqs') > Len(reqs) /\ reqs'[Len(reqs) + 1].offset = 0)]_vars

\* C3: loading is true exactly when some request is pending and not cancelled.
C3_LoadingIffActiveRequest ==
    mounted => (loading <=> \E i \in 1..Len(reqs) : Pending(reqs[i]) /\ ~reqs[i].aborted)

\* C4: the response of a request that is no longer the current one is never
\* written to results or numFound, also over a transport that delivers it
\* although its signal was aborted.
C4_StaleResponseNeverWritten ==
    [][\A i \in 1..Len(reqs) :
         (reqs[i].aborted /\ Settling(i)) => UNCHANGED <<results, numFound>>]_vars

\* C5: the completion of a request that ends with its AbortError changes none
\* of results, numFound, error and loading.
C5_AbortedCompletionChangesNothing ==
    [][\A i \in 1..Len(reqs) :
         (Pending(reqs[i]) /\ reqs'[i].st = "aborted")
             => UNCHANGED <<results, numFound, error, loading>>]_vars

\* C6: every step that ends with an empty debouncedQuery ends with results
\* empty, numFound 0 and error null, has issued no request, and leaves no
\* pending request that is not cancelled.
C6_EmptyQueryStaysCleared ==
    [][v' = <<>> =>
          /\ results' = <<>>
          /\ numFound' = 0
          /\ error' = Null
          /\ Len(reqs') = Len(reqs)
          /\ \A i \in 1..Len(reqs') : Pending(reqs'[i]) => reqs'[i].aborted]_vars

\* The query became empty after a successful search while a second request was
\* in flight; that request has settled since, and everything is still cleared.
C6_Witness ==
    /\ mounted
    /\ v = <<>>
    /\ Len(reqs) = 2
    /\ reqs[1].st = "success"
    /\ reqs[2].st = "aborted"
    /\ lastDone = 2
    /\ results = <<>> /\ numFound = 0 /\ error = Null

\* C7: whenever debouncedQuery is empty, loading is false.
C7_EmptyQueryIsIdle == (mounted /\ v = <<>>) => ~loading

\* C8: debouncedQuery changes only to the latest raw input, only when delay
\* has passed since the raw input last changed, and no timer stays armed to
\* emit again.
C8_DebounceQuiescence ==
    [][v' # v => (v' = query /\ idle = delay /\ timers' = {})]_vars

\* Two or more raw changes fell into one window and its last value was emitted.
C8_Witness ==
    /\ mounted
    /\ burst >= 2
    /\ timers = {}
    /\ v = <<"D", " ">>
    /\ query = v

\* C9: as long as no request has been issued, a step that changes
\* debouncedQuery issues exactly one request, for the settled raw input at
\* offset 0, and every other step issues none.
C9_OneFetchForSettledValue ==
    [][Len(reqs) = 0 =>
          IF v' # v
             THEN /\ Len(reqs') = 1
                  /\ query # <<>>
                  /\ reqs'[1].title = EncodeURIComponent(query)
                  /\ reqs'[1].offset = 0
             ELSE Len(reqs') = 0]_vars

\* "D " and then "D" typed within one window from the initial state: one
\* request, for "D", is in flight.
C9_Witness ==
    /\ mounted
    /\ burst >= 2
    /\ timers = {}
    /\ query = <<"D">>
    /\ v = <<"D">>
    /\ Len(reqs) = 1
    /\ reqs[1].title = <<"D">>
    /\ reqs[1].st = "fetch"
    /\ lastDone = 0

\* C10: page stays within 1 .. max(1, totalPages) for the numFound held.
C10_PageInRange ==
    /\ page >= 1
    /\ page <= Max(1, totalPages(numFound))

C12_FailureKeepsLastResults ==
    [][\A i \in 1..Len(reqs) :
         (mounted /\ Settling(i) /\ reqs'[i].st = "failed") =>
             /\ reqs[i].st = "fetch" => error' \in {NotOkMessage, TransportMessage}
             /\ reqs[i].st = "json" => error' = ParseMessage
             /\ error' # Null
             /\ loading' = FALSE
             /\ UNCHANGED <<results, numFound>>
             /\ ~Pending(reqs'[i])]_vars

\* The request for page 2 failed; the page-1 results are still held under the
\* error message.
C12_Witness ==
    /\ mounted
    /\ Len(reqs) = 2
    /\ reqs[1].st = "success"
    /\ reqs[2].st = "failed"
    /\ lastDone = 2
    /\ error = TransportMessage
    /\ loading = FALSE
    /\ results = <<Doc1, Doc2>>
    /\ numFound = 45

\* C13: a step in which a body without a docs field arrives ends the request
\* as failed, with error set.
C13_MissingDocsIsFailure ==
    [][\A i \in 1..Len(reqs) : \A data \in Bodies :
         (mounted /\ "docs" \notin DOMAIN data /\ JsonApplies(i, FALSE, data)) =>
             (reqs'[i].st = "failed" /\ error' # Null)]_vars

\* C13 as amended: a step in which a body without a docs field arrives ends
\* the request as a success with an empty item list: results becomes empty,
\* numFound is the body's (0 if absent), error keeps its value and loading
\* becomes false.
C13_MissingDocsIsEmptySuccess ==
    [][\A i \in 1..Len(reqs) : \A data \in Bodies :
         (mounted /\ "docs" \notin DOMAIN data /\ JsonApplies(i, FALSE, data)) =>
             /\ reqs'[i].st = "success"
             /\ results' = <<>>
             /\ numFound' = NumFoundOf(data)
             /\ error' = error
             /\ loading' = FALSE]_vars

\* The body {numFound: 20} was applied: no items, 20 found, no error.
C13_Witness ==
    /\ mounted
    /\ Len(reqs) = 1
    /\ reqs[1].st = "success"
    /\ results = <<>>
    /\ numFound = 20
    /\ error = Null
    /\ loading = FALSE

\* C14: from teardown on no timer is pending, debouncedQuery does not change,
\* no request is issued, every pending request is aborted, and error keeps
\* the value it had.
C14_TeardownCancels ==
    [][~mounted' =>
          /\ timers' = {}
          /\ v' = v
          /\ Len(reqs') = Len(reqs)
          /\ \A i \in 1..Len(reqs') : Pending(reqs'[i]) => reqs'[i].aborted
          /\ error' = error]_vars

\* Teardown came with a timer pending and a request in flight; the request
\* has ended with its AbortError since, and no error is held.
C14_Witness ==
    /\ ~mounted
    /\ query # v
    /\ timers = {}
    /\ Len(reqs) = 1
    /\ reqs[1].st = "aborted"
    /\ lastDone = 1
    /\ loading = TRUE
    /\ error = Null

\* C15: every request issued in a step has the encoded debouncedQuery of that
\* step as title, limit 20, and offset (page - 1) * 20 for the page held when
\* it was issued (the page before the reset for a request issued ahead of the
\* reset, the new page otherwise); a click that changes page leaves the raw
\* and the debounced query, results and numFound alone and issues exactly one
\* request.
C15_RequestParameters ==
    [][/\ \A k \in (Len(reqs) + 1)..Len(reqs') :
              /\ reqs'[k].title = EncodeURIComponent(v')
              /\ reqs'[k].limit = 20
              /\ reqs'[k].offset = ((IF k = Len(reqs') THEN page' ELSE page) - 1) * 20
       /\ (v' = v /\ page' # page) =>
              /\ UNCHANGED <<query, results, numFound>>
              /\ Len(reqs') = Len(reqs) + 1]_vars

\* Next was clicked on page 1 of "D ": the second request asks for offset 20 of
\* the same, encoded, title.
C15_Witness ==
    /\ mounted
    /\ v = <<"D", " ">>
    /\ page = 2
    /\ Len(reqs) = 2
    /\ reqs[1].title = <<"D", "%", "2", "0">> /\ reqs[1].offset = 0
    /\ reqs[2].title = <<"D", "%", "2", "0">> /\ reqs[2].offset = 20
    /\ reqs[2].limit = 20

\* C16: coverUrl(doc) is a pure function of the record: with a cover_i (with or
\* without an isbn list) it is the URL of that numeric cover id; with a non-empty
\* isbn list and no cover_i it is the URL of isbn[0]; with neither, or with an
\* empty isbn list and no cover_i, it is null.
C16_IdUrl ==
    [c \in CoverIds |->
        IF c = 11 THEN "https://covers.openlibrary.org/b/id/11-M.jpg"
                  ELSE "https://covers.openlibrary.org/b/id/240727-M.jpg"]

C16_IsbnUrl ==
    [s \in {"0441172695", "9780441172696"} |->
        IF s = "0441172695" THEN "https://covers.openlibrary.org/b/isbn/0441172695-M.jpg"
                            ELSE "https://covers.openlibrary.org/b/isbn/9780441172696-M.jpg"]

C16_CoverUrl ==
    /\ Len(cards) \in {0, Len(results)}
    /\ \A i \in 1..Len(cards) :
           LET doc == results[i]
               hasId == "cover_i" \in DOMAIN doc
               hasIsbn == "isbn" \in DOMAIN doc /\ doc.isbn # <<>>
           IN  /\ hasId => cards[i] = C16_IdUrl[doc.cover_i]
               /\ (~hasId /\ hasIsbn) => cards[i] = C16_IsbnUrl[Head(doc.isbn)]
               /\ (~hasId /\ ~hasIsbn) => cards[i] = Null

C16_Witness ==
    /\ Len(results) = 2
    /\ results[1] = [key |-> "/works/OL1W", cover_i |-> 240727,
                      isbn |-> <<"9780441172696", "0441172695">>]
    /\ results[2] = [key |-> "/works/OL1W", isbn |-> <<"9780441172696", "0441172695">>]
    /\ cards = <<"https://covers.openlibrary.org/b/id/240727-M.jpg",
                 "https://covers.openlibrary.org/b/isbn/9780441172696-M.jpg">>

\* C17: wherever a pagination button is enabled, its click moves page exactly
\* one step: an enabled Next leads to page + 1, which is at most totalPages; an
\* enabled Prev leads to page - 1, which is at least 1.
C17_EnabledControlMovesOneStep ==
    mounted =>
        /\ ~NextDisabled(page, numFound) =>
               /\ NextTarget(page, numFound) = page + 1
               /\ NextTarget(page, numFound) <= totalPages(numFound)
        /\ ~PrevDisabled(page) =>
               /\ PrevTarget(page) = page - 1
               /\ PrevTarget(page) >= 1

\* C18: after every step at most one issued request is pending and not
\* cancelled; it is the last one issued and it asks for the current
\* debouncedQuery and page.  A step that issues a request leaves every request
\* issued before it cancelled.
C18_OneActiveRequest ==
    [][/\ \A i \in 1..Len(reqs') :
              (Pending(reqs'[i]) /\ ~reqs'[i].aborted) =>
                  /\ i = Len(reqs')
                  /\ reqs'[i].title = EncodeURIComponent(v')
                  /\ reqs'[i].offset = (page' - 1) * perPage
       /\ Len(reqs') > Len(reqs) =>
              \A i \in 1..(Len(reqs') - 1) : reqs'[i].aborted]_vars

\* The request for page 1 was cancelled while pending by the request for page 2.
C18_Witness ==
    /\ mounted
    /\ page = 2
    /\ Len(reqs) = 3
    /\ reqs[1].st = "success"
    /\ reqs[2].st = "fetch" /\ reqs[2].aborted /\ reqs[2].offset = 0
    /\ reqs[3].st = "json" /\ ~reqs[3].aborted /\ reqs[3].offset = perPage

\* C19: after every step, a non-null error is held only with loading false, and
\* it is the failure of the last request issued, which asked for the current
\* debouncedQuery and page; a step that issues a request ends with error null
\* and loading true.
C19_FailedExcludesLoading ==
    [][/\ (mounted' /\ error' # Null) =>
              /\ ~loading'
              /\ Len(reqs') > 0
              /\ reqs'[Len(reqs')].st = "failed"
              /\ reqs'[Len(reqs')].title = EncodeURIComponent(v')
              /\ reqs'[Len(reqs')].offset = (page' - 1) * perPage
       /\ Len(reqs') > Len(reqs) => (error' = Null /\ loading')]_vars

\* A second request failed after the error of the first had been cleared.
C19_Witness ==
    /\ mounted
    /\ Len(reqs) = 2
    /\ reqs[1].st = "failed"
    /\ reqs[2].st = "failed"
    /\ reqs[2].title = EncodeURIComponent(v)
    /\ error = ParseMessage
    /\ ~loading

\* C20: whenever debouncedQuery is non-empty, loading is false and error is
\* null, the results and numFound held were applied from the successful
\* response of the last request issued, which asked for the current
\* debouncedQuery and page; so 'No results found.' is shown only after that
\* request has succeeded, never while it is pending.
C20_SettledViewIsCurrent ==
    LET last == reqs[Len(reqs)]
        current == /\ Len(reqs) > 0
                   /\ last.st = "success"
                   /\ last.title = EncodeURIComponent(v)
                   /\ last.offset = (page - 1) * perPage
    IN  /\ (mounted /\ v # <<>> /\ ~loading /\ error = Null) => current
        /\ (mounted /\ NoResultsShown) => current

====
